---- MODULE Spec2Model ----
(***************************************************************************)
(* The Ingress stage of the tracing demo: the Go handler                   *)
(* (golang/apps/create/main.go) and the Java handler                       *)
(* (java/apps/create/.../CreateHandler.java), the object store they write  *)
(* to, the spans the Go handler records, and the record type of the check  *)
(* stage (java/apps/check/.../daos/CustomObject.java).                     *)
(*                                                                         *)
(* An invocation is two steps: everything the handler does up to the       *)
(* moment the put request leaves for the object store (Begin), and the     *)
(* completion of that put together with the rest of the handler (Put).     *)
(* Invocations of different Lambda instances interleave between the two.   *)
(***************************************************************************)
EXTENDS Integers, Sequences, FiniteSets, TLC

VARIABLES
    now,        \* wall clock, in milliseconds
    randomizer, \* main.go:31, the value the generator yields on its next Intn(15)
    inv,        \* the invocations, in order of arrival
    s3,         \* the objects held by the object store
    heap,       \* check.daos.CustomObject instances
    ret         \* what the last getter call on a CustomObject returned

vars == <<now, randomizer, inv, s3, heap, ret>>

----------------------------------------------------------------------------
(* Bounds of the model *)

MaxInv == 2

MaxTicks == 2

FirstMilli == 9

MaxObjects == 2

----------------------------------------------------------------------------
(* Configuration and environment *)

\* os.Getenv("INPUT_S3_BUCKET_NAME") of the Go deployment
INPUT_S3_BUCKET_NAME == "go-input"

\* System.getenv("INPUT_S3_BUCKET_NAME") of the Java deployment
JAVA_INPUT_S3_BUCKET_NAME == "java-input"

CUSTOM_OTEL_SPAN_EVENT_NAME == "LambdaCreateEvent"

\* The buckets that exist and that the handlers' roles may write to.
\* "wrong-bucket-name" is not one of them.
Buckets == {INPUT_S3_BUCKET_NAME, JAVA_INPUT_S3_BUCKET_NAME}

\* Errors a put against an existing bucket can end with.
RealErrors == {"AccessDenied"}

\* What a put against `bucket` can return: "nil" or the error's text.
PutOutcomes(bucket) ==
    IF bucket \in Buckets THEN {"nil"} \cup RealErrors ELSE {"NoSuchBucket"}

\* The range of randomizer.Intn(15)
IntnRange == 15

\* The request the API gateway hands to the handler.  The handler copies
\* its fields into span attributes and never branches on them.
Request ==
    [HTTPMethod |-> "POST", Protocol |-> "HTTP/1.1", Resource |-> "/create",
     Proto |-> "https", UserAgent |-> "curl", Host |-> "api"]

----------------------------------------------------------------------------
(* Conversions *)

\* One decimal digit
Digit(d) == SubSeq("0123456789", d + 1, d + 1)

\* strconv.FormatInt(n, 10) and String.valueOf(long), for n >= 0
RECURSIVE FormatInt(_)
FormatInt(n) ==
    IF n < 10 THEN Digit(n) ELSE FormatInt(n \div 10) \o Digit(n % 10)

\* A JSON boolean
FormatBool(b) == IF b THEN "true" ELSE "false"

\* json.Marshal(body) with the struct tags of CustomObject; gson.toJson
\* yields the same text from the Java fields item, isUpdated, isChecked.
Marshal(body) ==
    "{\"item\":\"" \o body.item \o "\",\"isUpdated\":" \o FormatBool(body.isUpdated)
        \o ",\"isChecked\":" \o FormatBool(body.isChecked) \o "}"

\* The record type
CustomObject(item, isUpdated, isChecked) ==
    [item |-> item, isUpdated |-> isUpdated, isChecked |-> isChecked]

----------------------------------------------------------------------------
(* Spans: every call on a span is one entry of the invocation's trace *)

Op(span, op, name, val) ==
    [span |-> span, op |-> op, name |-> name, val |-> val,
     successful |-> FALSE, bucket |-> ""]

AddEvent(span, name, successful, bucket) ==
    [span |-> span, op |-> "event", name |-> name, val |-> "",
     successful |-> successful, bucket |-> bucket]

SetAttribute(span, name, val) == Op(span, "attr", name, val)

End(span) == Op(span, "end", "", "")

\* startParentSpan(req)
startParentSpan(req) ==
    << Op("root", "start", "main.handler", "server"),
       SetAttribute("root", "faas.trigger", "http"),
       SetAttribute("root", "net.transport", "ip_tcp"),
       SetAttribute("root", "http.method", req.HTTPMethod),
       SetAttribute("root", "http.flavor", req.Protocol),
       SetAttribute("root", "http.route", req.Resource),
       SetAttribute("root", "http.target", req.Resource),
       SetAttribute("root", "http.scheme", req.Proto),
       SetAttribute("root", "http.user_agent", req.UserAgent),
       SetAttribute("root", "net.host.name", req.Host) >>

\* startS3PutSpan(ctx, parentSpan)
startS3PutSpan ==
    << Op("s3put", "start", "S3.PutObject", "client"),
       SetAttribute("s3put", "net.transport", "ip_tcp") >>

\* The index at which `span` was ended in trace tr, 0 when it was not.
\* Only the first End counts: the SDK ignores calls on an ended span.
EndIndex(tr, span) ==
    IF \E j \in 1..Len(tr) : tr[j].span = span /\ tr[j].op = "end"
    THEN CHOOSE j \in 1..Len(tr) :
            /\ tr[j].span = span /\ tr[j].op = "end"
            /\ \A k \in 1..(j - 1) : ~(tr[k].span = span /\ tr[k].op = "end")
    ELSE 0

StartIndex(tr, span) ==
    IF \E j \in 1..Len(tr) : tr[j].span = span /\ tr[j].op = "start"
    THEN CHOOSE j \in 1..Len(tr) : tr[j].span = span /\ tr[j].op = "start"
    ELSE 0

\* The entries of kind op that span recorded: those made while it was open.
Recorded(tr, span, op) ==
    { j \in 1..Len(tr) :
        /\ tr[j].span = span /\ tr[j].op = op
        /\ StartIndex(tr, span) # 0 /\ StartIndex(tr, span) <= j
        /\ (EndIndex(tr, span) = 0 \/ j < EndIndex(tr, span)) }

\* The value of attribute name on span, "" when it has none
Attribute(tr, span, name) ==
    LET js == { j \in Recorded(tr, span, "attr") : tr[j].name = name }
    IN  IF js = {} THEN ""
        ELSE tr[CHOOSE j \in js : \A k \in js : k <= j].val

\* The span's status: what SetStatus last set, Unset when it was never called
Status(tr, span) ==
    LET js == Recorded(tr, span, "status")
    IN  IF js = {} THEN "Unset"
        ELSE tr[CHOOSE j \in js : \A k \in js : k <= j].val

----------------------------------------------------------------------------
(* The object store *)

\* put(bucket, key, bytes): the object under (bucket, key) is replaced
PutObject(store, req) ==
    { o \in store : ~(o.bucket = req.bucket /\ o.key = req.key) } \cup {req}

NoRequest == [bucket |-> "", key |-> "", body |-> ""]

NoResponse == [status |-> 0, body |-> "", contentType |-> ""]

----------------------------------------------------------------------------
(* The Go handler, golang/apps/create/main.go *)

\* causeError(), on the value randomizer.Intn(15) returned
causeError(draw) == draw = 1

\* storeObjectInS3, lines 183-186
bucketName(draw) ==
    IF causeError(draw) THEN "wrong-bucket-name" ELSE INPUT_S3_BUCKET_NAME

\* UploadInput with the injection reaching the payload as well
UploadInputCorrupt(draw, t, jsonBody) ==
    [bucket |-> bucketName(draw), key |-> FormatInt(t),
     body |-> IF causeError(draw) THEN "" ELSE jsonBody]

\* UploadInput with the key taken from Unix() instead of UnixMilli()
UploadInputSeconds(draw, t, jsonBody) ==
    [bucket |-> bucketName(draw), key |-> FormatInt(t \div 1000), body |-> jsonBody]

\* storeObjectInS3, lines 191-195: the request handed to the uploader
UploadInput(draw, t, jsonBody) ==
    [bucket |-> bucketName(draw), key |-> FormatInt(t), body |-> jsonBody]

\* storeObjectInS3 without the deferred s3PutSpan.End()
storeObjectInS3NoEnd(err) ==
    LET msg == "Storing custom object into S3 is failed."
    IN  [ops |-> (IF err # "nil"
                  THEN << SetAttribute("s3put", "otel.status_code", "ERROR"),
                          SetAttribute("s3put", "otel.status_description",
                                       msg \o ": " \o err) >>
                  ELSE << >>),
         err |-> err]

\* storeObjectInS3 with the description lacking err.Error()
storeObjectInS3NoErrText(err) ==
    LET msg == "Storing custom object into S3 is failed."
    IN  [ops |-> (IF err # "nil"
                  THEN << SetAttribute("s3put", "otel.status_code", "ERROR"),
                          SetAttribute("s3put", "otel.status_description", msg) >>
                  ELSE << >>) \o << End("s3put") >>,
         err |-> err]

\* storeObjectInS3, lines 197-211, with the deferred s3PutSpan.End() of
\* line 180: what it records once the upload returned err, and what it returns
storeObjectInS3(err) ==
    LET msg == "Storing custom object into S3 is failed."
    IN  [ops |-> (IF err # "nil"
                  THEN << SetAttribute("s3put", "otel.status_code", "ERROR"),
                          SetAttribute("s3put", "otel.status_description",
                                       msg \o ": " \o err) >>
                  ELSE << >>) \o << End("s3put") >>,
         err |-> err]

\* handlerMarshalFailed reporting the failure on the root span
handlerMarshalFailedMarked ==
    [ops  |-> << SetAttribute("root", "http.status_code", FormatInt(500)),
                 AddEvent("root", CUSTOM_OTEL_SPAN_EVENT_NAME, FALSE,
                          INPUT_S3_BUCKET_NAME),
                 End("root") >>,
     resp |-> [status |-> 500, body |-> "Failed", contentType |-> ""],
     err  |-> "nil"]

\* handler, lines 97-104: json.Marshal failed
handlerMarshalFailed ==
    [ops  |-> << End("root") >>,
     resp |-> [status |-> 500, body |-> "Failed", contentType |-> ""],
     err  |-> "nil"]

\* handler with the error of storeObjectInS3 dropped
handlerIgnoresError(err, jsonBody) ==
    [ops  |-> << SetAttribute("root", "http.status_code", FormatInt(200)),
                 AddEvent("root", CUSTOM_OTEL_SPAN_EVENT_NAME, TRUE,
                          INPUT_S3_BUCKET_NAME),
                 End("root") >>,
     resp |-> [status |-> 200, body |-> jsonBody, contentType |-> ""],
     err  |-> "nil"]

\* handler with parentSpan.End() called before the outcome is recorded
handlerEndsEarly(err, jsonBody) ==
    IF err # "nil"
    THEN [ops  |-> << End("root"),
                      SetAttribute("root", "http.status_code", FormatInt(500)),
                      AddEvent("root", CUSTOM_OTEL_SPAN_EVENT_NAME, FALSE,
                               INPUT_S3_BUCKET_NAME) >>,
          resp |-> [status |-> 500, body |-> "Failed", contentType |-> ""],
          err  |-> "nil"]
    ELSE [ops  |-> << End("root"),
                      SetAttribute("root", "http.status_code", FormatInt(200)),
                      AddEvent("root", CUSTOM_OTEL_SPAN_EVENT_NAME, TRUE,
                               INPUT_S3_BUCKET_NAME) >>,
          resp |-> [status |-> 200, body |-> jsonBody, contentType |-> ""],
          err  |-> "nil"]

\* handler, lines 108-139, with the deferred parentSpan.End() of line 87:
\* what it records and returns once storeObjectInS3 returned err
handler(err, jsonBody) ==
    IF err # "nil"
    THEN [ops  |-> << SetAttribute("root", "http.status_code", FormatInt(500)),
                      AddEvent("root", CUSTOM_OTEL_SPAN_EVENT_NAME, FALSE,
                               INPUT_S3_BUCKET_NAME),
                      End("root") >>,
          resp |-> [status |-> 500, body |-> "Failed", contentType |-> ""],
          err  |-> "nil"]
    ELSE [ops  |-> << SetAttribute("root", "http.status_code", FormatInt(200)),
                      AddEvent("root", CUSTOM_OTEL_SPAN_EVENT_NAME, TRUE,
                               INPUT_S3_BUCKET_NAME),
                      End("root") >>,
          resp |-> [status |-> 200, body |-> jsonBody, contentType |-> ""],
          err  |-> "nil"]

\* handler up to the upload call: the root span, the record, its JSON, the
\* child span, the draw of the fault injector and the upload request
GoBegin ==
    /\ Len(inv) < MaxInv
    /\ \E marshalOK \in BOOLEAN :
        LET body == CustomObject("test", FALSE, FALSE)
            tr   == startParentSpan(Request)
            base == [kind |-> "go", pc |-> "done", body |-> body, jsonBody |-> "",
                     localErr |-> "nil", t |-> 0, req |-> NoRequest, injected |-> FALSE, puts |-> 0,
                     putErr |-> "none", storeErr |-> "none",
                     trace |-> tr, resp |-> NoResponse, err |-> "none"]
        IN  IF ~marshalOK
            THEN /\ inv' = Append(inv,
                        [base EXCEPT !.localErr = "json: unsupported value",
                                     !.trace = tr \o handlerMarshalFailed.ops,
                                     !.resp = handlerMarshalFailed.resp,
                                     !.err = handlerMarshalFailed.err])
                 /\ UNCHANGED randomizer
            ELSE /\ inv' = Append(inv,
                        [base EXCEPT !.pc = "put",
                                     !.jsonBody = Marshal(body),
                                     !.t = now,
                                     !.trace = tr \o startS3PutSpan,
                                     !.injected = causeError(randomizer),
                                     !.req = UploadInput(randomizer, now, Marshal(body)),
                                     !.puts = 1])
                 /\ randomizer' \in 0..(IntnRange - 1)
    /\ UNCHANGED <<now, s3, heap, ret>>

\* The upload returns, storeObjectInS3 returns and the handler returns
GoPut(i) ==
    /\ inv[i].kind = "go" /\ inv[i].pc = "put"
    /\ \E out \in PutOutcomes(inv[i].req.bucket) :
        LET st == storeObjectInS3(out)
            h  == handler(st.err, inv[i].jsonBody)
        IN  /\ s3' = IF out = "nil" THEN PutObject(s3, inv[i].req) ELSE s3
            /\ inv' = [inv EXCEPT ![i] =
                        [@ EXCEPT !.pc = "done", !.putErr = out, !.storeErr = st.err,
                                  !.trace = @ \o st.ops \o h.ops,
                                  !.resp = h.resp, !.err = h.err]]
    /\ UNCHANGED <<now, randomizer, heap, ret>>

----------------------------------------------------------------------------
(* The Java handler, java/apps/create/.../CreateHandler.java *)

\* createCustomObject()
createCustomObject == CustomObject("test", FALSE, FALSE)

\* getStringOfCustomObject(customObject)
getStringOfCustomObject(customObject) == Marshal(customObject)

\* createResponse(statusCode, body)
createResponse(statusCode, body) ==
    [status |-> statusCode, body |-> body, contentType |-> "application/json"]

\* storeObjectInS3, lines 91-96: the request handed to s3Client.putObject
PutObjectRequest(t, json) ==
    [bucket |-> JAVA_INPUT_S3_BUCKET_NAME, key |-> FormatInt(t), body |-> json]

\* handleRequest, lines 62-67: the response once putObject returned ("nil")
\* or threw an exception with message exc
handleRequest(exc, json) ==
    IF exc = "nil" THEN createResponse(200, json) ELSE createResponse(500, exc)

\* Exceptions the handler can meet before the put leaves (line 122)
JavaLocalErrors == {"getByteArrayOutputStream failed"}

\* handleRequest up to the putObject call
JavaBegin ==
    /\ Len(inv) < MaxInv
    /\ \E exc \in {"nil"} \cup JavaLocalErrors :
        LET body == createCustomObject
            json == getStringOfCustomObject(body)
            base == [kind |-> "java", pc |-> "done", body |-> body, jsonBody |-> json,
                     localErr |-> exc, t |-> 0, req |-> NoRequest, injected |-> FALSE, puts |-> 0,
                     putErr |-> "none", storeErr |-> "none",
                     trace |-> << >>, resp |-> NoResponse, err |-> "none"]
        IN  IF exc # "nil"
            THEN inv' = Append(inv, [base EXCEPT !.resp = handleRequest(exc, json),
                                                 !.err = "nil"])
            ELSE inv' = Append(inv, [base EXCEPT !.pc = "put", !.t = now,
                                                 !.req = PutObjectRequest(now, json),
                                                 !.puts = 1])
    /\ UNCHANGED <<now, randomizer, s3, heap, ret>>

\* putObject returns or throws, and handleRequest returns
JavaPut(i) ==
    /\ inv[i].kind = "java" /\ inv[i].pc = "put"
    /\ \E out \in PutOutcomes(inv[i].req.bucket) :
        /\ s3' = IF out = "nil" THEN PutObject(s3, inv[i].req) ELSE s3
        /\ inv' = [inv EXCEPT ![i] =
                    [@ EXCEPT !.pc = "done", !.putErr = out, !.storeErr = out,
                              !.resp = handleRequest(out, inv[i].jsonBody),
                              !.err = "nil"]]
    /\ UNCHANGED <<now, randomizer, heap, ret>>

----------------------------------------------------------------------------
(* Time *)

Tick ==
    /\ now < FirstMilli + MaxTicks
    /\ now' = now + 1
    /\ UNCHANGED <<randomizer, inv, s3, heap, ret>>

----------------------------------------------------------------------------
(* The Ingress specification *)

NoReturn == [op |-> "none", val |-> ""]

Init ==
    /\ now = FirstMilli
    /\ randomizer \in 0..(IntnRange - 1)
    /\ inv = << >>
    /\ s3 = {}
    /\ heap = << >>
    /\ ret = NoReturn

Next ==
    \/ GoBegin
    \/ \E i \in 1..Len(inv) : GoPut(i)
    \/ JavaBegin
    \/ \E i \in 1..Len(inv) : JavaPut(i)
    \/ Tick

Spec == Init /\ [][Next]_vars

TypeOK ==
    /\ now \in FirstMilli..(FirstMilli + MaxTicks)
    /\ randomizer \in 0..(IntnRange - 1)
    /\ Len(inv) <= MaxInv
    /\ \A i \in 1..Len(inv) :
        /\ inv[i].kind \in {"go", "java"}
        /\ inv[i].pc \in {"put", "done"}
        /\ inv[i].puts \in {0, 1}

----------------------------------------------------------------------------
(* The record type of the check stage, check/daos/CustomObject.java *)

Items == {"test", "other"}

\* setIsChecked assigning the wrong field
setIsCheckedWrongField(obj, isChecked) == [obj EXCEPT !.isUpdated = isChecked]

\* setIsChecked(isChecked) on object obj
setIsChecked(obj, isChecked) == [obj EXCEPT !.isChecked = isChecked]

\* new CustomObject(item, isUpdated, isChecked)
New ==
    /\ Len(heap) < MaxObjects
    /\ \E item \in Items, isUpdated \in BOOLEAN, isChecked \in BOOLEAN :
        heap' = Append(heap, CustomObject(item, isUpdated, isChecked))
    /\ ret' = [op |-> "new", val |-> ""]
    /\ UNCHANGED <<now, randomizer, inv, s3>>

\* The record as Ingress creates it (CreateHandler.createCustomObject)
Create ==
    /\ Len(heap) < MaxObjects
    /\ heap' = Append(heap, createCustomObject)
    /\ ret' = [op |-> "createCustomObject", val |-> ""]
    /\ UNCHANGED <<now, randomizer, inv, s3>>

SetIsChecked(i) ==
    /\ \E isChecked \in BOOLEAN :
        heap' = [heap EXCEPT ![i] = setIsChecked(heap[i], isChecked)]
    /\ ret' = [op |-> "setIsChecked", val |-> ""]
    /\ UNCHANGED <<now, randomizer, inv, s3>>

GetItem(i) ==
    /\ ret' = [op |-> "getItem", val |-> heap[i].item]
    /\ UNCHANGED <<now, randomizer, inv, s3, heap>>

GetIsUpdated(i) ==
    /\ ret' = [op |-> "getIsUpdated", val |-> heap[i].isUpdated]
    /\ UNCHANGED <<now, randomizer, inv, s3, heap>>

GetIsChecked(i) ==
    /\ ret' = [op |-> "getIsChecked", val |-> heap[i].isChecked]
    /\ UNCHANGED <<now, randomizer, inv, s3, heap>>

InitDao ==
    /\ now = FirstMilli
    /\ randomizer = 0
    /\ inv = << >>
    /\ s3 = {}
    /\ heap = << >>
    /\ ret = NoReturn

NextDao ==
    \/ New
    \/ Create
    \/ \E i \in 1..Len(heap) : SetIsChecked(i)
    \/ \E i \in 1..Len(heap) : GetItem(i)
    \/ \E i \in 1..Len(heap) : GetIsUpdated(i)
    \/ \E i \in 1..Len(heap) : GetIsChecked(i)

SpecDao == InitDao /\ [][NextDao]_vars

----------------------------------------------------------------------------
(* Vocabulary of the properties *)

Invocations == 1..Len(inv)

Done(i) == inv[i].pc = "done"

Go(i) == inv[i].kind = "go"

Java(i) == inv[i].kind = "java"

\* The bucket invocation i is configured to write to
ConfiguredBucket(i) ==
    IF Go(i) THEN INPUT_S3_BUCKET_NAME ELSE JAVA_INPUT_S3_BUCKET_NAME

\* The serialized record of Scenario A
ExpectedJson == "{\"item\":\"test\",\"isUpdated\":false,\"isChecked\":false}"

\* Invocation i issued a put, the store accepted it and holds the object
WriteSucceeded(i) ==
    /\ inv[i].puts = 1
    /\ inv[i].putErr = "nil"
    /\ inv[i].req \in s3

\* Invocation i failed: locally, or in its put
Failed(i) ==
    \/ inv[i].localErr # "nil"
    \/ inv[i].putErr \notin {"nil", "none"}

\* The span carries an error mark: a status, or the status-code attribute
SpanMarkedError(tr, span) ==
    \/ Status(tr, span) = "Error"
    \/ Attribute(tr, span, "otel.status_code") = "ERROR"

\* sub occurs in s
Contains(s, sub) ==
    \E k \in 1..(Len(s) - Len(sub) + 1) : SubSeq(s, k, k + Len(sub) - 1) = sub

DigitValue(c) ==
    CASE c = "0" -> 0 [] c = "1" -> 1 [] c = "2" -> 2 [] c = "3" -> 3
      [] c = "4" -> 4 [] c = "5" -> 5 [] c = "6" -> 6 [] c = "7" -> 7
      [] c = "8" -> 8 [] c = "9" -> 9

\* The number a decimal string denotes
RECURSIVE ParseInt(_)
ParseInt(s) ==
    IF Len(s) = 0 THEN 0
    ELSE 10 * ParseInt(SubSeq(s, 1, Len(s) - 1)) + DigitValue(SubSeq(s, Len(s), Len(s)))

----------------------------------------------------------------------------
(* C1: an Ingress invocation answers 200 exactly when its storage write     *)
(* succeeded, and the body of a 200 is the serialized record with           *)
(* item="test", isUpdated=false, isChecked=false.                           *)

C1_StatusIffWriteSucceeded ==
    \A i \in Invocations :
        Done(i) =>
            /\ inv[i].resp.status \in {200, 500}
            /\ inv[i].resp.status = 200 <=> WriteSucceeded(i)
            /\ inv[i].resp.status = 200 => inv[i].resp.body = ExpectedJson

C1_Witness ==
    \E i, j \in Invocations :
        /\ Go(i) /\ Done(i) /\ inv[i].resp.status = 200
        /\ Java(j) /\ Done(j) /\ inv[j].resp.status = 200

(* C2: every failed Ingress invocation, Go or Java, answers 500 with the    *)
(* one fixed body "Failed", whatever the cause, and returns no invocation   *)
(* error.                                                                   *)

C2_FailureBodyFixed ==
    \A i \in Invocations :
        (Done(i) /\ Failed(i)) =>
            /\ inv[i].resp.status = 500
            /\ inv[i].resp.body = "Failed"
            /\ inv[i].err = "nil"

(* C3: when the storage write of a Go Ingress invocation failed, the root   *)
(* span's status is error when the invocation returns its 500.              *)

C3_RootSpanError ==
    \A i \in Invocations :
        (Go(i) /\ Done(i) /\ inv[i].storeErr \notin {"nil", "none"}) =>
            /\ inv[i].resp.status = 500
            /\ SpanMarkedError(inv[i].trace, "root")

(* C4: a Go Ingress invocation that attempted the storage write has, when  *)
(* it returns, exactly one outcome event on its root span, recorded before  *)
(* the span ended; the event's success flag is the outcome of the write     *)
(* (true exactly when the response is 200) and its bucket is the configured *)
(* bucket, never the injected target.                                       *)

C4_OneOutcomeEvent ==
    \A i \in Invocations :
        (Go(i) /\ Done(i) /\ inv[i].puts = 1) =>
            LET tr == inv[i].trace
                ev == Recorded(tr, "root", "event")
            IN  /\ EndIndex(tr, "root") # 0
                /\ Cardinality(ev) = 1
                /\ \A j \in ev :
                    /\ tr[j].name = CUSTOM_OTEL_SPAN_EVENT_NAME
                    /\ tr[j].successful = (inv[i].putErr = "nil")
                    /\ tr[j].successful = (inv[i].resp.status = 200)
                    /\ tr[j].bucket = INPUT_S3_BUCKET_NAME
                    /\ tr[j].bucket # "wrong-bucket-name"

C4_Witness ==
    \E i, j \in Invocations :
        /\ Go(i) /\ Done(i) /\ inv[i].injected /\ inv[i].resp.status = 500
        /\ Go(j) /\ Done(j) /\ ~inv[j].injected /\ inv[j].resp.status = 200

(* C5: the fault injector fires on a storage-write attempt exactly when the *)
(* value drawn from 0..14 is 1; firing changes the bucket of the put and    *)
(* nothing else: the body is the serialized record and the key the decimal  *)
(* millisecond of the attempt either way, and without firing the bucket is  *)
(* the configured one.                                                      *)

C5_InjectionOnlyRedirects ==
    [][\A i \in 1..Len(inv') :
        (i > Len(inv) /\ inv'[i].kind = "go" /\ inv'[i].puts = 1) =>
            /\ randomizer \in 0..14
            /\ inv'[i].injected <=> (randomizer = 1)
            /\ inv'[i].req.body = ExpectedJson
            /\ ParseInt(inv'[i].req.key) = now
            /\ inv'[i].injected => inv'[i].req.bucket = "wrong-bucket-name"
            /\ ~inv'[i].injected => inv'[i].req.bucket = INPUT_S3_BUCKET_NAME
            /\ \A j \in Invocations :
                (Go(j) /\ inv[j].puts = 1 /\ inv[j].t = now) =>
                    /\ inv'[i].req.key = inv[j].req.key
                    /\ inv'[i].req.body = inv[j].req.body]_vars

C5_Witness ==
    \E i, j \in Invocations :
        /\ Go(i) /\ inv[i].puts = 1 /\ inv[i].injected
        /\ Go(j) /\ inv[j].puts = 1 /\ ~inv[j].injected
        /\ inv[i].t = inv[j].t
        /\ inv[i].req.bucket # inv[j].req.bucket

(* C6, as claimed: every invocation that returned 200 created one object in *)
(* its configured bucket under a key no other write to that bucket has,     *)
(* every invocation that returned 500 created none, and the configured      *)
(* bucket holds as many objects as invocations returned 200.                *)

Succeeded(bucket) ==
    { i \in Invocations :
        Done(i) /\ inv[i].resp.status = 200 /\ ConfiguredBucket(i) = bucket }

ObjectsIn(bucket) == { o \in s3 : o.bucket = bucket }

C6_OneObjectPerSuccess ==
    \A b \in Buckets :
        /\ \A i \in Succeeded(b) :
            /\ inv[i].req \in ObjectsIn(b)
            /\ \A j \in Invocations :
                (j # i /\ inv[j].puts = 1 /\ inv[j].req.bucket = b) =>
                    inv[j].req.key # inv[i].req.key
        /\ \A o \in ObjectsIn(b) : \E i \in Succeeded(b) : inv[i].req = o
        /\ Cardinality(ObjectsIn(b)) = Cardinality(Succeeded(b))

(* C6, amended: every invocation that returned 200 wrote its record into    *)
(* its configured bucket under the decimal millisecond at which it issued   *)
(* the write, and no other object exists; two writes have the same key      *)
(* exactly when they were issued in the same millisecond, so the bucket     *)
(* holds one object per distinct millisecond of its successful writes, at   *)
(* most one per successful invocation.                                      *)

C6_OneObjectPerMillisecond ==
    /\ \A o \in s3 : o.bucket \in Buckets
    /\ \A i, j \in Invocations :
        (inv[i].puts = 1 /\ inv[j].puts = 1) =>
            (inv[i].req.key = inv[j].req.key <=> inv[i].t = inv[j].t)
    /\ \A b \in Buckets :
        /\ \A i \in Succeeded(b) :
            /\ inv[i].req \in ObjectsIn(b)
            /\ inv[i].req.body = ExpectedJson
            /\ ParseInt(inv[i].req.key) = inv[i].t
        /\ \A o \in ObjectsIn(b) : \E i \in Succeeded(b) : inv[i].req = o
        /\ Cardinality(ObjectsIn(b)) = Cardinality({ inv[i].t : i \in Succeeded(b) })
        /\ Cardinality(ObjectsIn(b)) <= Cardinality(Succeeded(b))

C6_Witness ==
    \E i, j \in Invocations :
        /\ i # j /\ Go(i) /\ Go(j)
        /\ i \in Succeeded(INPUT_S3_BUCKET_NAME)
        /\ j \in Succeeded(INPUT_S3_BUCKET_NAME)
        /\ inv[i].t = inv[j].t
        /\ Cardinality(ObjectsIn(INPUT_S3_BUCKET_NAME)) = 1

(* C7, as claimed: every record has isChecked => isUpdated, and no          *)
(* operation on a record (creation by Ingress, the constructor, the         *)
(* setters) takes a flag from true back to false.                           *)

C8_SpansEnded ==
    \A i \in Invocations :
        (Go(i) /\ Done(i)) =>
            LET tr == inv[i].trace
            IN  /\ StartIndex(tr, "root") # 0
                /\ \A sp \in {"root", "s3put"} :
                    StartIndex(tr, sp) # 0 => EndIndex(tr, sp) > StartIndex(tr, sp)
                /\ inv[i].puts = 1 => StartIndex(tr, "s3put") # 0
                /\ StartIndex(tr, "s3put") # 0 =>
                    EndIndex(tr, "s3put") < EndIndex(tr, "root")

C8_Witness ==
    \E i, j \in Invocations :
        /\ Go(i) /\ Done(i) /\ inv[i].localErr # "nil"
        /\ Go(j) /\ Done(j) /\ inv[j].puts = 1
        /\ EndIndex(inv[j].trace, "s3put") # 0

(* C9: an invocation whose serialization failed returns the 500 response    *)
(* without drawing from the fault injector and without a storage write, and *)
(* its root span gets no status, no status-code attribute and no outcome    *)
(* event; an invocation whose serialization succeeded issues exactly one    *)
(* storage write, which is never issued again.                              *)

C9_NoWriteOnLocalFailure ==
    [][/\ \A i \in 1..Len(inv') :
            /\ inv'[i].localErr # "nil" =>
                /\ inv'[i].pc = "done"
                /\ inv'[i].resp.status = 500
                /\ inv'[i].puts = 0
                /\ inv'[i].req = NoRequest
                /\ inv'[i].putErr = "none"
                /\ Status(inv'[i].trace, "root") = "Unset"
                /\ Attribute(inv'[i].trace, "root", "http.status_code") = ""
                /\ Attribute(inv'[i].trace, "root", "otel.status_code") = ""
                /\ Recorded(inv'[i].trace, "root", "event") = {}
                /\ i > Len(inv) => (randomizer' = randomizer /\ s3' = s3)
            /\ inv'[i].localErr = "nil" => inv'[i].puts = 1
       /\ \A i \in Invocations :
            /\ inv'[i].puts = inv[i].puts
            /\ inv'[i].req = inv[i].req
            /\ Done(i) => inv'[i] = inv[i]]_vars

C9_Witness ==
    \E i, j \in Invocations :
        /\ Go(i) /\ Done(i) /\ inv[i].localErr # "nil"
        /\ Go(j) /\ Done(j) /\ inv[j].localErr = "nil" /\ inv[j].puts = 1
        /\ inv[j].putErr # "nil"

(* C10: the storage write of the Go handler returns an error exactly when   *)
(* the put failed, which it always does when the fault injector fired; then *)
(* the client span is marked error with a description holding the put's     *)
(* error text, and that same error is returned; when the put succeeded the  *)
(* client span has no error mark and nil is returned.                       *)

C10_StoreReturnsPutError ==
    \A i \in Invocations :
        (Go(i) /\ Done(i) /\ inv[i].puts = 1) =>
            LET tr == inv[i].trace
            IN  /\ inv[i].putErr # "none"
                /\ inv[i].storeErr = inv[i].putErr
                /\ inv[i].injected => inv[i].putErr # "nil"
                /\ inv[i].putErr # "nil" =>
                    /\ Attribute(tr, "s3put", "otel.status_code") = "ERROR"
                    /\ Contains(Attribute(tr, "s3put", "otel.status_description"),
                                inv[i].putErr)
                /\ inv[i].putErr = "nil" =>
                    /\ ~SpanMarkedError(tr, "s3put")
                    /\ Attribute(tr, "s3put", "otel.status_description") = ""

C10_Witness ==
    \E i, j \in Invocations :
        /\ Go(i) /\ Done(i) /\ inv[i].injected /\ inv[i].storeErr = "NoSuchBucket"
        /\ Go(j) /\ Done(j) /\ ~inv[j].injected /\ inv[j].storeErr = "AccessDenied"

====
